---- MODULE Spec2Model ----
(***************************************************************************)
(* Model of package customerimporter (interview.go): Import / ImportFile,  *)
(* parseHeader, processLine and sortResults, together with the part of     *)
(* encoding/csv's Reader that Import relies on (blank-line skipping, line  *)
(* counting, FieldsPerRecord enforcement).                                  *)
(*                                                                          *)
(* Go strings are modelled as sequences of byte values, so that Split,     *)
(* ToLower and the byte-wise order of sort.Strings are computed, not       *)
(* assumed.                                                                 *)
(***************************************************************************)
EXTENDS Integers, Sequences, FiniteSets, TLC

VARIABLES
    ci,             \* the customerImporter: CsvFileName, EmailColumnName
    pc,             \* where the call is: idle, parseHeader, loop, importReturned,
                    \* unwinding (a panic passing through ImportFile), done, panic
    viaFile,        \* TRUE when Import was called by ImportFile
    csvFile,        \* ImportFile's file handle: none, open, closed
    closeCount,     \* how often csvFile.Close ran
    reader,         \* the csv.Reader handed to Import
    lastRead,       \* the error of the latest reader.Read (NoError: a record)
    consumed,       \* the records the reader has delivered so far, as they lie in the input
    emailColIndex, lineNumber, custGrp,     \* Import's locals
    log,            \* the "skip line N: ..." messages written so far
    results, err    \* what the call returned

vars == <<ci, pc, viaFile, csvFile, closeCount, reader, lastRead, consumed,
          emailColIndex, lineNumber, custGrp, log, results, err>>

(***************************************************************************)
(* Bounds of the model                                                      *)
(***************************************************************************)
\* records (header included) a reader delivers before it reports end-of-input
MaxRecords == 4

(***************************************************************************)
(* Program constants                                                        *)
(***************************************************************************)
defaultCsvFileName == "customers.csv"
defaultEmailColumnName == <<101, 109, 97, 105, 108>>      \* "email"
numExpectedEmailComponents == 2
emailDomainIndex == 1

(***************************************************************************)
(* Byte strings used by the inputs                                          *)
(***************************************************************************)
AtSign == <<64>>                                  \* "@"
ColEmailCapital == <<69, 109, 97, 105, 108>>      \* "Email"
ColName == <<110, 97, 109, 101>>                  \* "name"
FieldX == <<120>>                                 \* "x"
FieldTwoLines == <<120, 10, 121>>                 \* "x\ny", a quoted field holding a line break
MailUpperB == <<117, 64, 66>>                     \* "u@B"
MailLowerB == <<117, 64, 98>>                     \* "u@b"
MailLowerA == <<117, 64, 97>>                     \* "u@a"
MailNoAt == <<117>>                               \* "u"
MailTwoAt == <<117, 64, 97, 64, 98>>              \* "u@a@b"
MailNoDomain == <<117, 64>>                       \* "u@"

\* the files that exist on disk
ExistingFiles == {defaultCsvFileName}
FileNames == {defaultCsvFileName, "dummy_file.csv"}
ColumnNames == {defaultEmailColumnName, ColEmailCapital}

Headers == { <<ColName, defaultEmailColumnName>>,
             <<ColName, ColEmailCapital>>,
             <<defaultEmailColumnName, defaultEmailColumnName>>,
             <<ColName, ColName, defaultEmailColumnName>> }

Emails == {MailUpperB, MailLowerB, MailLowerA, MailNoAt, MailTwoAt, MailNoDomain}

Rows == { <<FieldX, e>> : e \in Emails }
        \cup { <<MailLowerA, MailLowerB>>, <<FieldX>>, <<FieldX, FieldX, MailLowerB>> }

\* A record as it lies in the input: its fields and the blank lines before it.
Item(fields, blanks) == [fields |-> fields, blanks |-> blanks]

HeaderItems == { Item(h, 0) : h \in Headers }
               \cup { Item(<<ColName, defaultEmailColumnName>>, 1) }

DataItems == { Item(r, 0) : r \in Rows }
             \cup { Item(<<FieldX, MailNoAt>>, 1),
                    Item(<<FieldTwoLines, MailLowerB>>, 0) }

(***************************************************************************)
(* Errors and results                                                       *)
(***************************************************************************)
Error(kind, col, line) == [kind |-> kind, col |-> col, line |-> line]
NoError == Error("nil", <<>>, 0)

NilResults == [isNil |-> TRUE, items |-> <<>>]
EmailGroup(domain, counter) == [EmailDomain |-> domain, Counter |-> counter]

(***************************************************************************)
(* strings.Split(s, "@"), strings.ToLower, and Go's string order            *)
(***************************************************************************)
RECURSIVE Split(_)
Split(s) ==
    IF \A i \in 1..Len(s) : <<s[i]>> # AtSign
    THEN <<s>>
    ELSE LET i == CHOOSE j \in 1..Len(s) :
                     /\ <<s[j]>> = AtSign
                     /\ \A k \in 1..(j - 1) : <<s[k]>> # AtSign
         IN  <<SubSeq(s, 1, i - 1)>> \o Split(SubSeq(s, i + 1, Len(s)))

ToLowerByte(b) == IF b >= 65 /\ b <= 90 THEN b + 32 ELSE b
ToLower(s) == [i \in 1..Len(s) |-> ToLowerByte(s[i])]

RECURSIVE StringLess(_, _)
StringLess(a, b) ==
    IF b = <<>> THEN FALSE
    ELSE IF a = <<>> THEN TRUE
    ELSE IF Head(a) # Head(b) THEN Head(a) < Head(b)
    ELSE StringLess(Tail(a), Tail(b))

(***************************************************************************)
(* sort.Strings, as an insertion sort over the slice of keys                *)
(***************************************************************************)
RECURSIVE InsertKey(_, _)
InsertKey(sorted, k) ==
    IF sorted = <<>> THEN <<k>>
    ELSE IF StringLess(k, Head(sorted)) THEN <<k>> \o sorted
    ELSE <<Head(sorted)>> \o InsertKey(Tail(sorted), k)

\* sort.Strings left out: the keys stay in the order the range loop produced
SortStrings_Unsorted(keys) == keys

RECURSIVE SortStrings(_)
SortStrings(keys) ==
    IF keys = <<>> THEN <<>>
    ELSE InsertKey(SortStrings(Tail(keys)), Head(keys))

\* The orders in which "for k := range custGrp" may visit the keys.
RangeOrders(grp) ==
    LET n == Cardinality(DOMAIN grp)
    IN  { s \in [1..n -> DOMAIN grp] : \A i, j \in 1..n : s[i] = s[j] => i = j }

\* sortResults declaring "var results []EmailGroup": nil when the map is empty
sortResults_NilWhenEmpty(grp, keys) ==
    LET sorted == SortStrings(keys)
    IN  [isNil |-> keys = <<>>,
         items |-> [i \in 1..Len(sorted) |-> EmailGroup(sorted[i], grp[sorted[i]])]]

\* sortResults, given the order in which the range loop visited the map
sortResults(grp, keys) ==
    LET sorted == SortStrings(keys)
    IN  [isNil |-> FALSE,
         items |-> [i \in 1..Len(sorted) |-> EmailGroup(sorted[i], grp[sorted[i]])]]

(***************************************************************************)
(* processLine                                                              *)
(***************************************************************************)
Increment(grp, d) ==
    IF d \in DOMAIN grp THEN [grp EXCEPT ![d] = @ + 1] ELSE grp @@ (d :> 1)

Outcome(panic, e, grp) == [panic |-> panic, err |-> e, custGrp |-> grp]

\* processLine without strings.ToLower
processLine_NoToLower(line, idx, grp, n) ==
    IF Len(line) < idx
    THEN Outcome(FALSE, Error("email field not found", <<>>, n), grp)
    ELSE IF idx + 1 > Len(line)
    THEN Outcome(TRUE, NoError, grp)
    ELSE LET components == Split(line[idx + 1])
         IN  IF Len(components) = numExpectedEmailComponents
             THEN Outcome(FALSE, NoError, Increment(grp, components[emailDomainIndex + 1]))
             ELSE Outcome(FALSE, Error("invalid email format", <<>>, 0), grp)

\* processLine accepting any email with at least one '@'
processLine_AtLeastTwo(line, idx, grp, n) ==
    IF Len(line) < idx
    THEN Outcome(FALSE, Error("email field not found", <<>>, n), grp)
    ELSE IF idx + 1 > Len(line)
    THEN Outcome(TRUE, NoError, grp)
    ELSE LET components == Split(line[idx + 1])
         IN  IF Len(components) >= numExpectedEmailComponents
             THEN Outcome(FALSE, NoError,
                          Increment(grp, ToLower(components[emailDomainIndex + 1])))
             ELSE Outcome(FALSE, Error("invalid email format", <<>>, 0), grp)

processLine(line, idx, grp, n) ==
    IF Len(line) < idx
    THEN Outcome(FALSE, Error("email field not found", <<>>, n), grp)
    ELSE IF idx + 1 > Len(line)
    THEN Outcome(TRUE, NoError, grp)          \* line[emailColIndex]: index out of range
    ELSE LET components == Split(line[idx + 1])
         IN  IF Len(components) = numExpectedEmailComponents
             THEN Outcome(FALSE, NoError,
                          Increment(grp, ToLower(components[emailDomainIndex + 1])))
             ELSE Outcome(FALSE, Error("invalid email format", <<>>, 0), grp)

(***************************************************************************)
(* csv.Reader.Read                                                          *)
(***************************************************************************)
CountByte(s, b) == Cardinality({i \in 1..Len(s) : s[i] = b})

RECURSIVE LineBreaksIn(_)
LineBreaksIn(fields) ==
    IF fields = <<>> THEN 0
    ELSE CountByte(Head(fields), 10) + LineBreaksIn(Tail(fields))

\* physical lines a record occupies: one, plus one per line break inside a field
LinesOf(fields) == 1 + LineBreaksIn(fields)

NewReader(fieldsPerRecord) ==
    [isNil |-> FALSE, FieldsPerRecord |-> fieldsPerRecord, numLine |-> 0, delivered |-> 0]
NilReader == [isNil |-> TRUE, FieldsPerRecord |-> 0, numLine |-> 0, delivered |-> 0]

\* What Read returns for the next record of the input, and the reader after it.
ReadRecord(r, item) ==
    LET recLine == r.numLine + item.blanks + 1
        n == Len(item.fields)
        bad == r.FieldsPerRecord > 0 /\ n # r.FieldsPerRecord
    IN  [record |-> item.fields,
         item |-> item,
         err |-> IF bad THEN Error("wrong number of fields", <<>>, recLine) ELSE NoError,
         reader |-> [r EXCEPT !.numLine = r.numLine + item.blanks + LinesOf(item.fields),
                              !.delivered = @ + 1,
                              !.FieldsPerRecord = IF @ = 0 THEN n ELSE @]]

ReadEnd(r, kind) == [record |-> <<>>, item |-> Item(<<>>, 0), err |-> Error(kind, <<>>, 0), reader |-> r]

Reads(r, items) ==
    { ReadEnd(r, "EOF"), ReadEnd(r, "read error") }
    \cup (IF r.delivered < MaxRecords THEN { ReadRecord(r, it) : it \in items } ELSE {})

(***************************************************************************)
(* parseHeader                                                              *)
(***************************************************************************)
\* the header search comparing column names without regard to case
RECURSIVE IndexOf_IgnoreCase(_, _, _)
IndexOf_IgnoreCase(header, name, i) ==
    IF header = <<>> THEN -1
    ELSE IF ToLower(Head(header)) = ToLower(name) THEN i
    ELSE IndexOf_IgnoreCase(Tail(header), name, i + 1)

RECURSIVE IndexOf(_, _, _)
IndexOf(header, name, i) ==
    IF header = <<>> THEN -1
    ELSE IF Head(header) = name THEN i
    ELSE IndexOf(Tail(header), name, i + 1)

\* rd is what reader.Read returned; it is not looked at when the reader is nil
parseHeader(r, rd, columnName) ==
    IF r.isNil THEN [index |-> -1, err |-> Error("invalid reader", <<>>, 0)]
    ELSE IF rd.err # NoError THEN [index |-> -1, err |-> rd.err]
    ELSE LET i == IndexOf(rd.record, columnName, 0)
         IN  IF i >= 0 THEN [index |-> i, err |-> NoError]
             ELSE [index |-> -1, err |-> Error("missing column name", columnName, 0)]

(***************************************************************************)
(* State machine                                                            *)
(***************************************************************************)
Init ==
    /\ ci = [CsvFileName |-> defaultCsvFileName, EmailColumnName |-> defaultEmailColumnName]
    /\ pc = "idle"
    /\ viaFile = FALSE
    /\ csvFile = "none"
    /\ closeCount = 0
    /\ reader = NilReader
    /\ lastRead = NoError
    /\ consumed = <<>>
    /\ emailColIndex = -1
    /\ lineNumber = 0
    /\ custGrp = <<>>
    /\ log = <<>>
    /\ results = NilResults
    /\ err = NoError

SetCsvFileName(fileName) ==
    /\ pc = "idle"
    /\ ci' = [ci EXCEPT !.CsvFileName = fileName]
    /\ UNCHANGED <<pc, viaFile, csvFile, closeCount, reader, lastRead, consumed,
                   emailColIndex, lineNumber, custGrp, log, results, err>>

SetEmailColumnName(columnName) ==
    /\ pc = "idle"
    /\ ci' = [ci EXCEPT !.EmailColumnName = columnName]
    /\ UNCHANGED <<pc, viaFile, csvFile, closeCount, reader, lastRead, consumed,
                   emailColIndex, lineNumber, custGrp, log, results, err>>

\* A caller hands Import a reader of its own (possibly nil).
CallImport(r) ==
    /\ pc = "idle"
    /\ pc' = "parseHeader"
    /\ reader' = r
    /\ UNCHANGED <<ci, viaFile, csvFile, closeCount, lastRead, consumed,
                   emailColIndex, lineNumber, custGrp, log, results, err>>

\* ImportFile up to the call of Import.
ImportFile ==
    /\ pc = "idle"
    /\ viaFile' = TRUE
    /\ IF ci.CsvFileName \in ExistingFiles
       THEN /\ csvFile' = "open"
            /\ reader' = NewReader(0)
            /\ pc' = "parseHeader"
            /\ UNCHANGED <<results, err>>
       ELSE /\ results' = NilResults
            /\ err' = Error("unable to open file", <<>>, 0)
            /\ pc' = "done"
            /\ UNCHANGED <<csvFile, reader>>
    /\ UNCHANGED <<ci, closeCount, lastRead, consumed, emailColIndex, lineNumber, custGrp, log>>

\* Import returns (res, e) to its caller.
Return(res, e) ==
    /\ results' = res
    /\ err' = e
    /\ pc' = IF viaFile THEN "importReturned" ELSE "done"

\* Import from its first statement to the start of the read loop.
ImportHeader ==
    /\ pc = "parseHeader"
    /\ \E rd \in IF reader.isNil THEN {ReadEnd(reader, "EOF")} ELSE Reads(reader, HeaderItems) :
         LET h == parseHeader(reader, rd, ci.EmailColumnName)
         IN  /\ reader' = rd.reader
             /\ lastRead' = IF reader.isNil THEN lastRead ELSE rd.err
             /\ consumed' = IF reader.isNil \/ rd.record = <<>> THEN consumed
                            ELSE Append(consumed, rd.item)
             /\ IF h.err # NoError
                THEN /\ Return(NilResults, h.err)
                     /\ UNCHANGED <<emailColIndex, lineNumber, custGrp>>
                ELSE /\ emailColIndex' = h.index
                     /\ lineNumber' = 2
                     /\ custGrp' = <<>>
                     /\ pc' = "loop"
                     /\ UNCHANGED <<results, err>>
    /\ UNCHANGED <<ci, viaFile, csvFile, closeCount, log>>

\* The read loop reached end-of-input: sort and return.
ImportOnEOF ==
    /\ \E keys \in RangeOrders(custGrp) : Return(sortResults(custGrp, keys), NoError)
    /\ UNCHANGED <<custGrp, lineNumber, log>>

\* a read error that breaks out of the loop and returns what was counted so far
ImportOnReadError_KeepsCounts(e) ==
    /\ \E keys \in RangeOrders(custGrp) : Return(sortResults(custGrp, keys), e)
    /\ UNCHANGED <<custGrp, lineNumber, log>>

\* reader.Read failed with something other than end-of-input.
ImportOnReadError(e) ==
    /\ Return(NilResults, e)
    /\ UNCHANGED <<custGrp, lineNumber, log>>

\* One record: processLine, the "skip line" log entry, lineNumber++.
ImportOnRecord(line) ==
    LET o == processLine(line, emailColIndex, custGrp, lineNumber)
    IN  IF o.panic
        THEN /\ pc' = IF viaFile THEN "unwinding" ELSE "panic"
             /\ UNCHANGED <<custGrp, lineNumber, log, results, err>>
        ELSE /\ custGrp' = o.custGrp
             /\ log' = IF o.err # NoError
                       THEN Append(log, [line |-> lineNumber, err |-> o.err])
                       ELSE log
             /\ lineNumber' = lineNumber + 1
             /\ UNCHANGED <<pc, results, err>>

\* One iteration of Import's read loop.
ImportLoop ==
    /\ pc = "loop"
    /\ \E rd \in Reads(reader, DataItems) :
         /\ reader' = rd.reader
         /\ lastRead' = rd.err
         /\ consumed' = IF rd.record = <<>> THEN consumed ELSE Append(consumed, rd.item)
         /\ IF rd.err.kind = "EOF" THEN ImportOnEOF
            ELSE IF rd.err # NoError THEN ImportOnReadError(rd.err)
            ELSE ImportOnRecord(rd.record)
    /\ UNCHANGED <<ci, viaFile, csvFile, closeCount, emailColIndex>>

\* ImportFile without "defer csvFile.Close()"
ImportFileReturn_NoClose ==
    /\ viaFile
    /\ pc \in {"importReturned", "unwinding"}
    /\ results' = IF err # NoError THEN NilResults ELSE results
    /\ pc' = IF pc = "unwinding" THEN "panic" ELSE "done"
    /\ UNCHANGED <<ci, viaFile, csvFile, closeCount, reader, lastRead, consumed,
                   emailColIndex, lineNumber, custGrp, log, err>>

\* ImportFile after Import came back: its own return and the deferred Close.
ImportFileReturn ==
    /\ viaFile
    /\ pc \in {"importReturned", "unwinding"}
    /\ csvFile' = "closed"
    /\ closeCount' = closeCount + 1
    /\ results' = IF err # NoError THEN NilResults ELSE results
    /\ pc' = IF pc = "unwinding" THEN "panic" ELSE "done"
    /\ UNCHANGED <<ci, viaFile, reader, lastRead, consumed, emailColIndex, lineNumber,
                   custGrp, log, err>>

Next == \/ \E f \in FileNames : SetCsvFileName(f)
        \/ \E c \in ColumnNames : SetEmailColumnName(c)
        \/ \E r \in {NilReader, NewReader(0), NewReader(-1)} : CallImport(r)
        \/ ImportFile
        \/ ImportHeader
        \/ ImportLoop
        \/ ImportFileReturn

Spec == Init /\ [][Next]_vars
(***************************************************************************)
(* Vocabulary of the properties: what the input says, computed from the    *)
(* records as they lie in the input and not from Import's locals.           *)
(***************************************************************************)
Finished == pc = "done"
Returned == pc \in {"done", "importReturned"}
LastRow == Len(consumed)
\* the step hands one more record to the line processor
RecordProcessed ==
    pc = "loop" /\ lastRead' = NoError /\ Len(consumed') = Len(consumed) + 1
HeaderFields == consumed[1].fields
DataRows == 2..Len(consumed)
FieldsOf(i) == consumed[i].fields

\* zero-based position of the first header field equal to the configured name, or -1
ExpectedIndex ==
    IF \E i \in 1..Len(HeaderFields) : HeaderFields[i] = ci.EmailColumnName
    THEN (CHOOSE i \in 1..Len(HeaderFields) :
              /\ HeaderFields[i] = ci.EmailColumnName
              /\ \A j \in 1..(i - 1) : HeaderFields[j] # ci.EmailColumnName) - 1
    ELSE -1

HasEmailField(i) == Len(FieldsOf(i)) > ExpectedIndex
EmailOf(i) == FieldsOf(i)[ExpectedIndex + 1]
AtCount(e) == Cardinality({p \in 1..Len(e) : e[p] = 64})
DomainOf(e) ==
    LET p == CHOOSE q \in 1..Len(e) : e[q] = 64
    IN  ToLower(SubSeq(e, p + 1, Len(e)))
TwoPartRows == {i \in DataRows : HasEmailField(i) /\ AtCount(EmailOf(i)) = 1}
RowsOfDomain(d) == {i \in TwoPartRows : DomainOf(EmailOf(i)) = d}
UniformRows == \A i \in DataRows : Len(FieldsOf(i)) = Len(HeaderFields)

EntriesOf(d) == {i \in 1..Len(results.items) : results.items[i].EmailDomain = d}
ReturnedDomains == {results.items[i].EmailDomain : i \in 1..Len(results.items)}

RECURSIVE SumCounters(_)
SumCounters(items) ==
    IF items = <<>> THEN 0 ELSE Head(items).Counter + SumCounters(Tail(items))

\* a sorts before b in byte-wise lexicographic order
BytewiseBefore(a, b) ==
    \E k \in 1..Len(b) :
        /\ k - 1 <= Len(a)
        /\ \A j \in 1..(k - 1) : a[j] = b[j]
        /\ (k = Len(a) + 1 \/ a[k] < b[k])

\* physical line (the header's first line is line 1 unless blank lines precede it)
\* on which the i-th delivered record starts
RECURSIVE LinesThrough(_)
LinesThrough(i) ==
    IF i = 0 THEN 0
    ELSE LinesThrough(i - 1) + consumed[i].blanks + 1
         + Cardinality(UNION { { <<f, p>> : p \in {q \in 1..Len(FieldsOf(i)[f]) :
                                                     FieldsOf(i)[f][q] = 10} } :
                               f \in 1..Len(FieldsOf(i)) })
StartLine(i) == LinesThrough(i - 1) + consumed[i].blanks + 1

(***************************************************************************)
(* C1: when the header holds the configured column and every row has the   *)
(* header's field count, a successful Import returns for each domain d     *)
(* exactly one entry whose count is the number of data rows whose email    *)
(* field has exactly one '@' and lower-cased second part d (no entry when  *)
(* there is no such row), and the counts add up to the number of such rows.*)
(***************************************************************************)
C1_CountsMatchRows ==
    (Finished /\ err = NoError /\ UniformRows) =>
        /\ ~results.isNil
        /\ \A d \in ReturnedDomains \cup {DomainOf(EmailOf(i)) : i \in TwoPartRows} :
              /\ RowsOfDomain(d) # {}
              /\ Cardinality(EntriesOf(d)) = 1
              /\ \A i \in EntriesOf(d) :
                    results.items[i].Counter = Cardinality(RowsOfDomain(d))
        /\ SumCounters(results.items) = Cardinality(TwoPartRows)

\* "u@B" and "u@b" were both read and came back as the one entry {b, 2}
C1_Witness ==
    /\ Finished /\ err = NoError /\ UniformRows
    /\ \E i, j \in DataRows : EmailOf(i) = MailUpperB /\ EmailOf(j) = MailLowerB
    /\ \E k \in 1..Len(results.items) : results.items[k] = EmailGroup(<<98>>, 2)

(***************************************************************************)
(* C2: whenever Import returns without error the returned sequence is      *)
(* strictly ascending by domain in byte-wise order (so no domain repeats), *)
(* holds exactly the map's pairs, and is the same whatever order the keys  *)
(* were taken from the map in.                                              *)
(***************************************************************************)
C2_SortedDeterministic ==
    (Finished /\ err = NoError) =>
        /\ \A i \in 1..(Len(results.items) - 1) :
              BytewiseBefore(results.items[i].EmailDomain, results.items[i + 1].EmailDomain)
        /\ ReturnedDomains = DOMAIN custGrp
        /\ \A i \in 1..Len(results.items) :
              results.items[i].Counter = custGrp[results.items[i].EmailDomain]
        /\ \A keys \in RangeOrders(custGrp) : sortResults(custGrp, keys) = results

\* three domains came back: "", "a", "b", inserted with "b" first
C2_Witness ==
    /\ Finished /\ err = NoError
    /\ Len(results.items) = 3
    /\ Len(consumed) >= 2 /\ HasEmailField(2) /\ EmailOf(2) = MailUpperB
(***************************************************************************)
(* C3: header-stage failures are fatal and yield nothing.  A nil reader    *)
(* gives "invalid reader" and a nil result; a first record without a field *)
(* exactly equal to the configured column name gives "missing column"      *)
(* naming that column and a nil result; in both cases no data row is read  *)
(* or counted.                                                              *)
(***************************************************************************)
C3_HeaderFailuresFatal ==
    /\ (Finished /\ ~viaFile /\ reader.isNil) =>
          /\ err = Error("invalid reader", <<>>, 0)
          /\ results.isNil
          /\ consumed = <<>> /\ custGrp = <<>> /\ log = <<>>
    /\ (Len(consumed) >= 1 /\ ExpectedIndex = -1) =>
          /\ Returned
          /\ err = Error("missing column name", ci.EmailColumnName, 0)
          /\ results.isNil
          /\ Len(consumed) = 1 /\ custGrp = <<>> /\ log = <<>>

\* header "name,Email" read while the configured column is "email"
C3_Witness ==
    /\ Finished
    /\ Len(consumed) = 1
    /\ HeaderFields = <<ColName, ColEmailCapital>>
    /\ ci.EmailColumnName = defaultEmailColumnName
    /\ err.kind = "missing column name"

(***************************************************************************)
(* C4: when the reader reports, while data rows are read, a record whose   *)
(* field count differs from the header's (or any other error that is not   *)
(* end-of-input), Import returns that error and a nil result at once: the  *)
(* counts so far are dropped, the bad record is the last one read, and the *)
(* error carries the line on which the bad record starts (header = line 1).*)
(***************************************************************************)
C4_ReadErrorAborts ==
    /\ (Len(consumed) >= 1 /\ ExpectedIndex >= 0 /\ lastRead.kind \notin {"nil", "EOF"}) =>
          /\ Returned
          /\ results.isNil
          /\ err = lastRead
          /\ lastRead.kind = "wrong number of fields" =>
                /\ Len(FieldsOf(LastRow)) # Len(HeaderFields)
                /\ err.line = StartLine(LastRow)
    /\ (Len(consumed) >= 2 /\ reader.FieldsPerRecord >= 0) =>
          \A i \in DataRows :
              Len(FieldsOf(i)) # Len(HeaderFields) =>
                  /\ i = LastRow
                  /\ lastRead.kind = "wrong number of fields"
                  /\ Returned /\ results.isNil

\* a counted row, a blank line, a skipped row, then the short record on line 5
C4_Witness ==
    /\ Finished
    /\ err = Error("wrong number of fields", <<>>, 5)
    /\ Len(consumed) = 4
    /\ custGrp # <<>>
    /\ results.isNil

(***************************************************************************)
(* C5: a data row whose email field holds no '@' or more than one is       *)
(* skipped: the step that processes it leaves the map as it was, writes    *)
(* the "skip line" message and stays in the read loop; and once the input  *)
(* ends Import returns a nil error with the counts of the other rows.       *)
(***************************************************************************)
C5_SkipStep ==
    (/\ RecordProcessed
     /\ Len(FieldsOf(LastRow)') > ExpectedIndex
     /\ AtCount(EmailOf(LastRow)') # 1)
    => /\ custGrp' = custGrp
       /\ pc' = "loop"
       /\ err' = NoError
       /\ log' = Append(log, [line |-> lineNumber,
                               err |-> Error("invalid email format", <<>>, 0)])

C5_AfterSkips ==
    (Finished /\ Len(consumed) >= 1 /\ ExpectedIndex >= 0 /\ lastRead.kind = "EOF") =>
        /\ err = NoError
        /\ ~results.isNil
        /\ SumCounters(results.items) = Cardinality(TwoPartRows)
        /\ \A i \in TwoPartRows : EntriesOf(DomainOf(EmailOf(i))) # {}

\* C5: every step that processes such a row skips it, and the import then
\* ends with a nil error and the counts of the rows that have exactly one '@'
C5_InvalidRowsSkipped == [][C5_SkipStep]_vars /\ []C5_AfterSkips

\* "u@a@b" and "u" were skipped and the import still returned a count
C5_Witness ==
    /\ Finished /\ err = NoError
    /\ Len(log) = 2
    /\ \E i, j \in DataRows : /\ HasEmailField(i) /\ EmailOf(i) = MailTwoAt
                               /\ HasEmailField(j) /\ EmailOf(j) = MailNoAt
    /\ Len(results.items) = 1

(***************************************************************************)
(* C6: ImportFile leaves no file handle open.  If the path cannot be       *)
(* opened it returns "unable to open file" with a nil result, holds no     *)
(* handle and reads nothing; otherwise the handle is open while Import     *)
(* runs and is closed exactly once, after Import has finished, whether     *)
(* Import succeeded or failed.                                              *)
(***************************************************************************)
C6_FileHandleScoped ==
    /\ pc \in {"done", "panic"} => csvFile # "open"
    /\ closeCount = (IF csvFile = "closed" THEN 1 ELSE 0)
    /\ csvFile = "closed" => pc \in {"done", "panic"}
    /\ (viaFile /\ pc \in {"parseHeader", "loop", "importReturned", "unwinding"}) =>
          csvFile = "open"
    /\ (viaFile /\ ci.CsvFileName \in ExistingFiles /\ pc \in {"done", "panic"}) =>
          csvFile = "closed"
    /\ (viaFile /\ ci.CsvFileName \notin ExistingFiles) =>
          /\ Finished
          /\ err = Error("unable to open file", <<>>, 0)
          /\ results.isNil
          /\ csvFile = "none" /\ closeCount = 0
          /\ consumed = <<>> /\ reader.isNil
    /\ ~viaFile => csvFile = "none"

\* an import through ImportFile that failed on a short record, handle closed
C6_Witness ==
    /\ viaFile /\ Finished
    /\ err.kind = "wrong number of fields"
    /\ csvFile = "closed" /\ closeCount = 1

(***************************************************************************)
(* C7: every key of the aggregation map, during the import and in the      *)
(* returned result, is a non-empty lower-cased string.                      *)
(***************************************************************************)
C7_KeysNonEmptyLowerCase ==
    /\ \A k \in DOMAIN custGrp : k # <<>> /\ k = ToLower(k)
    /\ \A k \in ReturnedDomains : k # <<>> /\ k = ToLower(k)

(***************************************************************************)
(* C8: a record handed to the line processor with too few fields to hold   *)
(* the email column index (as many fields as the index included) yields    *)
(* "email field not found at line N" for that record only: the row is      *)
(* skipped, the map is unchanged and the import goes on.                    *)
(***************************************************************************)
C8_ShortStep ==
    (RecordProcessed /\ Len(FieldsOf(LastRow)') <= emailColIndex)
    => /\ pc' = "loop"
       /\ custGrp' = custGrp
       /\ log' = Append(log, [line |-> lineNumber,
                               err |-> Error("email field not found", <<>>, lineNumber)])

\* C8: every step that processes a record too short for the email column
\* logs "email field not found", leaves the map alone and stays in the loop
C8_ShortRowsSkipped == [][C8_ShortStep]_vars

(***************************************************************************)
(* C9: the line number in a "skip line N" message is the line of the input *)
(* on which the skipped row starts, the header being line 1, also when the *)
(* input holds blank lines or records that span several lines.              *)
(***************************************************************************)
C9_SkipStep ==
    Len(log') = Len(log) + 1 => log'[Len(log')].line = StartLine(LastRow)'

\* C9: every "skip line N" message carries the input line of its row
C9_SkipLineIsInputLine == [][C9_SkipStep]_vars

(***************************************************************************)
(* C10: a non-nil reader that is at end-of-input before any header makes   *)
(* Import return the end-of-input error and a nil result; a header that    *)
(* holds the configured column followed by no data row, or only by rows    *)
(* that are skipped, makes it return a nil error and an empty, non-nil     *)
(* sequence.                                                                *)
(***************************************************************************)
C10_EmptyInputVsHeaderOnly ==
    /\ (Returned /\ ~reader.isNil /\ consumed = <<>> /\ lastRead.kind = "EOF") =>
          /\ err = Error("EOF", <<>>, 0)
          /\ results.isNil
    /\ (Returned /\ Len(consumed) >= 1 /\ ExpectedIndex >= 0
           /\ lastRead.kind = "EOF" /\ TwoPartRows = {}) =>
          /\ err = NoError
          /\ ~results.isNil
          /\ results.items = <<>>

\* a header and two rows, both skipped: an empty result that is not nil
C10_Witness ==
    /\ Finished /\ err = NoError
    /\ Len(consumed) = 3 /\ Len(log) = 2
    /\ ~results.isNil /\ results.items = <<>>
====
